---- MODULE Spec2Model ----
(***************************************************************************)
(* A model of pypy/module/cpyext/cparser.py: the CTypeSpace that lowers    *)
(* abstract C type nodes to lltype descriptors, keeps the typedef, macro   *)
(* and struct tables, queues struct layouts for the platform probe and     *)
(* memoizes gettype.  Two type spaces are modelled: TS 2 is a unit that    *)
(* TS 1 may include.  And a model of rpython/rlib/buffer.py: the buffer    *)
(* objects and the SubBuffer views over them.                              *)
(***************************************************************************)
EXTENDS Integers, Sequences, FiniteSets, TLC

VARIABLES cts, ctx, heap, ret, bufs, bres

vars == <<cts, ctx, heap, ret, bufs, bres>>

(***************************************************************************)
(* Bounds of the model.                                                    *)
(***************************************************************************)
\* depth of nested convert_type calls the interpreter allows
Fuel == 10

\* the longest base buffer, and the number of buffer objects made
MaxLen == 2
MaxBufs == 3

(***************************************************************************)
(* The abstract type nodes the frontend hands to the type space            *)
(* (cmodel classes; one entry per node object).                            *)
(***************************************************************************)
Q_CONST == 1

Node ==
  [ int   |-> [kind |-> "PrimitiveType", name |-> "int"],
    char  |-> [kind |-> "PrimitiveType", name |-> "char"],
    i128  |-> [kind |-> "PrimitiveType", name |-> "__int128"],
    void  |-> [kind |-> "VoidType"],
    enumE |-> [kind |-> "EnumType", name |-> "E"],
    A     |-> [kind |-> "StructType", name |-> "A", hasfields |-> TRUE,
               fldnames |-> <<"x", "b">>, fldtypes |-> <<"int", "pB">>],
    B     |-> [kind |-> "StructType", name |-> "B", hasfields |-> TRUE,
               fldnames |-> <<"a", "y">>, fldtypes |-> <<"pA", "int">>],
    S     |-> [kind |-> "StructType", name |-> "S", hasfields |-> TRUE,
               fldnames |-> <<"next">>, fldtypes |-> <<"pS">>],
    V     |-> [kind |-> "StructType", name |-> "V", hasfields |-> TRUE,
               fldnames |-> <<"n", "cb">>, fldtypes |-> <<"int", "vfn">>],
    O     |-> [kind |-> "StructType", name |-> "O", hasfields |-> FALSE,
               fldnames |-> <<>>, fldtypes |-> <<>>],
    F     |-> [kind |-> "StructType", name |-> "_IO_FILE", hasfields |-> FALSE,
               fldnames |-> <<>>, fldtypes |-> <<>>],
    pA    |-> [kind |-> "PointerType", totype |-> "A", quals |-> 0],
    pB    |-> [kind |-> "PointerType", totype |-> "B", quals |-> 0],
    pS    |-> [kind |-> "PointerType", totype |-> "S", quals |-> 0],
    pV    |-> [kind |-> "PointerType", totype |-> "V", quals |-> 0],
    pO    |-> [kind |-> "PointerType", totype |-> "O", quals |-> 0],
    pF    |-> [kind |-> "PointerType", totype |-> "F", quals |-> 0],
    pc    |-> [kind |-> "PointerType", totype |-> "char", quals |-> 0],
    cpc   |-> [kind |-> "PointerType", totype |-> "char", quals |-> Q_CONST],
    pv    |-> [kind |-> "PointerType", totype |-> "void", quals |-> 0],
    pfn   |-> [kind |-> "PointerType", totype |-> "fn", quals |-> 0],
    pvfn  |-> [kind |-> "PointerType", totype |-> "vfn", quals |-> 0],
    parr  |-> [kind |-> "PointerType", totype |-> "arr", quals |-> Q_CONST],
    fn    |-> [kind |-> "FunctionPtrType", args |-> <<"pA", "int">>,
               result |-> "int", ellipsis |-> FALSE],
    vfn   |-> [kind |-> "FunctionPtrType", args |-> <<"int">>,
               result |-> "void", ellipsis |-> TRUE],
    vfn0  |-> [kind |-> "FunctionPtrType", args |-> <<>>,
               result |-> "pA", ellipsis |-> TRUE],
    fnv   |-> [kind |-> "FunctionPtrType", args |-> <<"int", "vfn">>,
               result |-> "void", ellipsis |-> FALSE],
    arr   |-> [kind |-> "ArrayType", item |-> "int", length |-> 4],
    arrv  |-> [kind |-> "ArrayType", item |-> "vfn", length |-> 2],
    tA    |-> [kind |-> "DefinedType", name |-> "A_t", realtype |-> "A", quals |-> 0],
    tB    |-> [kind |-> "DefinedType", name |-> "B1_t", realtype |-> "B", quals |-> 0],
    tA1   |-> [kind |-> "DefinedType", name |-> "A1_t", realtype |-> "A", quals |-> 0],
    tAA   |-> [kind |-> "DefinedType", name |-> "AA_t", realtype |-> "tA", quals |-> 0],
    tS    |-> [kind |-> "DefinedType", name |-> "S_t", realtype |-> "S", quals |-> 0],
    tpB   |-> [kind |-> "DefinedType", name |-> "pB_t", realtype |-> "pB", quals |-> 0],
    tvf   |-> [kind |-> "DefinedType", name |-> "vf_t", realtype |-> "vfn", quals |-> 0],
    tcc   |-> [kind |-> "DefinedType", name |-> "cc_t", realtype |-> "char", quals |-> Q_CONST]
  ]

NodeIds == DOMAIN Node

StructNodes == {n \in NodeIds : Node[n].kind = "StructType"}

(***************************************************************************)
(* Descriptors.  Every descriptor is a tuple that starts with a tag.       *)
(* <<"Delayed", id>> is the DelayedStruct object heap[id]; <<"Fwd", id>>   *)
(* is its TYPE, the lltype.ForwardReference created with it.               *)
(***************************************************************************)
None == <<"None">>
Void == <<"Void">>
VOIDP == <<"VOIDP">>
Unresolved == <<"ForwardReference">>
\* type_name = None
NoName == ""

CNAME_TO_LLTYPE ==
  [ int  |-> <<"Prim", "INT">>,
    char |-> <<"Prim", "CHAR">>,
    FILE |-> <<"Struct", "FILE">> ]

IsDelayed(tp) == tp[1] = "Delayed"

TYPEOf(tp) == <<"Fwd", tp[2]>>

\* isinstance(TO, lltype.ContainerType)
IsContainer(tp) == tp[1] \in {"Fwd", "Struct", "Array", "FixedArray", "Func"}

Put(d, k, v) == [x \in (DOMAIN d) \cup {k} |-> IF x = k THEN v ELSE d[x]]

EmptyDict == <<>>

\* the outcome of a call: the state it leaves, what it returns, what it raises
Return(w, res) == [w |-> w, res |-> res, err |-> "none"]
Raise(w, e) == [w |-> w, res |-> None, err |-> e]

\* the rest of a method after a call: an exception of the call ends the method
Bind(r, K(_)) == IF r.err # "none" THEN r ELSE K(r)

cname_to_lltype(w, name) ==
  IF name \in DOMAIN CNAME_TO_LLTYPE
    THEN Return(w, CNAME_TO_LLTYPE[name])
    ELSE Raise(w, "KeyError")

\* DelayedStruct(name, None, lltype.ForwardReference()).  becomes, by and
\* populating are history: the backfills so far, the type space that made the
\* placeholder, and whether it was in the struct cache when the lowering of
\* its fields began
DelayedStruct(name, fields, by) ==
  [struct_name |-> name, type_name |-> NoName, fields |-> fields,
   layout |-> Unresolved, becomes |-> 0, by |-> by, populating |-> "not begun"]

RECURSIVE convert_type(_, _, _, _)
RECURSIVE convert_list(_, _, _, _, _)
RECURSIVE new_struct(_, _, _)

\* DelayedStruct -> its TYPE, as convert_field and _real_gettype do
Unwrap(tp) == IF IsDelayed(tp) THEN TYPEOf(tp) ELSE tp

convert_field(w, obj, fuel) ==
  Bind(convert_type(w, obj, 0, fuel), LAMBDA r : Return(r.w, Unwrap(r.res)))

\* [f(x) for x in objs], left to right; an exception ends it
convert_list(w, objs, acc, field, fuel) ==
  IF objs = <<>> THEN Return(w, acc)
  ELSE Bind(IF field THEN convert_field(w, Head(objs), fuel)
                     ELSE convert_type(w, Head(objs), 0, fuel),
            LAMBDA r : convert_list(r.w, Tail(objs), Append(acc, r.res), field, fuel))

Zip(names, tps) == [i \in 1..Len(tps) |-> <<names[i], tps[i]>>]

\* struct.fields = zip(obj.fldnames, [...]) on the placeholder heap[id]
SetFields(w, id, n, tps) ==
  [w EXCEPT !.heap[id].fields = <<"List", Zip(n.fldnames, tps)>>]

\* self.structs[obj] = struct
CacheStruct(w, obj, id) == [w EXCEPT !.c.structs = Put(@, obj, <<"Delayed", id>>)]

\* the new placeholder, appended to the heap
Allocate(w, n) == [w EXCEPT !.heap = Append(@, DelayedStruct(n.name, None, w.self))]

\* the list comprehension over obj.fldtypes is entered for placeholder id
BeginFields(w, obj, id) ==
  [w EXCEPT !.heap[id].populating =
     IF obj \in DOMAIN w.c.structs /\ w.c.structs[obj] = <<"Delayed", id>>
       THEN "registered" ELSE "unregistered"]

\* a plausible slip: the placeholder is cached only after its fields are lowered
new_struct_late(w, obj, fuel) ==
  IF Node[obj].name = "_IO_FILE" THEN cname_to_lltype(w, "FILE")
  ELSE IF Node[obj].hasfields
    THEN Bind(convert_list(BeginFields(Allocate(w, Node[obj]), obj, Len(w.heap) + 1),
                           Node[obj].fldtypes, <<>>, TRUE, fuel),
              LAMBDA r : Return(CacheStruct(SetFields(r.w, Len(w.heap) + 1, Node[obj], r.res),
                                            obj, Len(w.heap) + 1),
                                <<"Delayed", Len(w.heap) + 1>>))
    ELSE Return(CacheStruct(Allocate(w, Node[obj]), obj, Len(w.heap) + 1),
                <<"Delayed", Len(w.heap) + 1>>)

new_struct(w, obj, fuel) ==
  IF Node[obj].name = "_IO_FILE" THEN cname_to_lltype(w, "FILE")
  ELSE IF Node[obj].hasfields
    THEN Bind(convert_list(BeginFields(CacheStruct(Allocate(w, Node[obj]), obj, Len(w.heap) + 1),
                                       obj, Len(w.heap) + 1),
                           Node[obj].fldtypes, <<>>, TRUE, fuel),
              LAMBDA r : Return(SetFields(r.w, Len(w.heap) + 1, Node[obj], r.res),
                                <<"Delayed", Len(w.heap) + 1>>))
    ELSE Return(CacheStruct(Allocate(w, Node[obj]), obj, Len(w.heap) + 1),
                <<"Delayed", Len(w.heap) + 1>>)

\* a plausible slip: the const qualifier of the pointer node is not looked at
PointerTo_noconst(TO, quals) ==
  IF TO = Void THEN VOIDP
  ELSE IF IsContainer(Unwrap(TO)) THEN <<"Ptr", Unwrap(TO)>>
  ELSE <<"Ptr", <<"Array", Unwrap(TO), "nolength">>>>

\* the descriptor of a pointer whose pointee lowered to TO
PointerTo(TO, quals) ==
  IF TO = Void THEN VOIDP
  ELSE IF IsContainer(Unwrap(TO)) THEN <<"Ptr", Unwrap(TO)>>
  ELSE IF (quals \div Q_CONST) % 2 = 1
    THEN <<"Ptr", <<"Array", Unwrap(TO), "nolength", "render_as_const">>>>
    ELSE <<"Ptr", <<"Array", Unwrap(TO), "nolength">>>>

\* convert_type on node obj, whose attributes are n
Lower(w, obj, n, fuel) ==
  CASE n.kind = "DefinedType" -> convert_type(w, n.realtype, n.quals, fuel - 1)
    [] n.kind = "PrimitiveType" -> cname_to_lltype(w, n.name)
    [] n.kind = "StructType" ->
         IF obj \in DOMAIN w.c.structs
           THEN Return(w, w.c.structs[obj])
           ELSE new_struct(w, obj, fuel - 1)
    [] n.kind = "PointerType" ->
         Bind(convert_type(w, n.totype, 0, fuel - 1),
              LAMBDA r : Return(r.w, PointerTo(r.res, n.quals)))
    [] n.kind = "FunctionPtrType" ->
         IF n.ellipsis THEN Raise(w, "NotImplementedError")
         ELSE Bind(convert_list(w, n.args, <<>>, FALSE, fuel - 1),
                   LAMBDA a : Bind(convert_type(a.w, n.result, 0, fuel - 1),
                                   LAMBDA r : Return(r.w, <<"Ptr", <<"Func", a.res, r.res>>>>)))
    [] n.kind = "VoidType" -> Return(w, Void)
    [] n.kind = "ArrayType" ->
         Bind(convert_type(w, n.item, 0, fuel - 1),
              LAMBDA r : Return(r.w, <<"FixedArray", r.res, n.length>>))
    [] OTHER -> Raise(w, "NotImplementedError")

\* fuel: the depth of nested calls left; running out of it stands for a
\* recursion that does not end
convert_type(w, obj, quals, fuel) ==
  IF fuel = 0 THEN Raise(w, "RecursionExceeded")
  ELSE Lower(w, obj, Node[obj], fuel)

(***************************************************************************)
(* The frontend (_cparser.Parser): the declaration table of each unit.     *)
(* A declaration name is "typedef <name>", "macro <name>" or a plain       *)
(* "struct <name>"; kind and short stand for the prefix and the rest.      *)
(***************************************************************************)
Decl ==
  [ st_A    |-> [kind |-> "struct",  short |-> "A",    obj |-> "A",   quals |-> 0],
    st_B    |-> [kind |-> "struct",  short |-> "B",    obj |-> "B",   quals |-> 0],
    td_A_t  |-> [kind |-> "typedef", short |-> "A_t",  obj |-> "tA",  quals |-> 0],
    td_A1_t |-> [kind |-> "typedef", short |-> "A1_t", obj |-> "tA1", quals |-> 0],
    td_B1_t |-> [kind |-> "typedef", short |-> "B1_t", obj |-> "tB",  quals |-> 0],
    td_vf_t |-> [kind |-> "typedef", short |-> "vf_t", obj |-> "tvf", quals |-> 0],
    td_pB_t |-> [kind |-> "typedef", short |-> "pB_t", obj |-> "tpB", quals |-> 0],
    mac_N   |-> [kind |-> "macro",   short |-> "N",    obj |-> "42",  quals |-> 0],
    mac_M   |-> [kind |-> "macro",   short |-> "M",    obj |-> "42",  quals |-> 0] ]

\* the texts each unit is given; needs: the declarations a text refers to
Source ==
  [ h2_structs  |-> [unit |-> 2, decls |-> <<"st_A", "st_B">>, needs |-> {}],
    h2_typedefs |-> [unit |-> 2, decls |-> <<"td_A_t", "mac_N">>, needs |-> {"st_A"}],
    h2_more     |-> [unit |-> 2, decls |-> <<"td_vf_t", "td_pB_t">>, needs |-> {"st_B"}],
    h1_use      |-> [unit |-> 1, decls |-> <<"td_A1_t", "td_B1_t", "mac_M">>,
                     needs |-> {"st_A", "st_B"}] ]

\* the type expressions gettype is asked for; needs: the declarations whose
\* nodes the expression is built from, without which the frontend is taken to
\* refuse it.  struct O is declared by no text: for such a name the frontend
\* gives a struct node without fields
CDecl ==
  [ struct_A_ptr |-> [obj |-> "pA", needs |-> {"st_A"}],
    A_t          |-> [obj |-> "tA", needs |-> {"td_A_t"}],
    struct_O_ptr |-> [obj |-> "pO", needs |-> {}] ]

\* the texts of the two-unit scenario
MainSources == {"h2_structs", "h2_typedefs", "h1_use"}

\* the type expressions of the two-unit scenario
MainCDecls == {"struct_A_ptr", "A_t"}

TS == {1, 2}

Range(s) == {s[i] : i \in DOMAIN s}

RECURSIVE AppendNew(_, _)
\* _declare for each name of a text; a name already declared with the same
\* object is left alone
AppendNew(decls, names) ==
  IF names = <<>> THEN decls
  ELSE AppendNew(IF Head(names) \in Range(decls) THEN decls
                                                 ELSE Append(decls, Head(names)),
                 Tail(names))

\* Parser.parse(source)
ctx_parse(x, s) ==
  IF Source[s].needs \subseteq Range(x.declarations)
    THEN [x |-> [x EXCEPT !.declarations = AppendNew(@, Source[s].decls)], err |-> "none"]
    ELSE [x |-> x, err |-> "ParseError"]

\* Parser.parse_type(cdecl)
ctx_parse_type(x, d) ==
  IF CDecl[d].needs \subseteq Range(x.declarations)
    THEN [obj |-> CDecl[d].obj, err |-> "none"]
    ELSE [obj |-> "void", err |-> "ParseError"]

\* Parser.include(other): other's declarations become visible, marked included
ctx_include(x, other) ==
  LET new == SelectSeq(other.declarations, LAMBDA n : n \notin Range(x.declarations))
  IN [declarations |-> x.declarations \o new,
      included |-> x.included \cup {Decl[new[i]].obj : i \in DOMAIN new}]

(***************************************************************************)
(* The platform probe (rffi_platform) and ForwardReference.become.         *)
(***************************************************************************)
\* rffi_platform.Struct(type_name, fields)
StructEntry(type_name, fields) == <<"StructEntry", type_name, fields>>

\* what configure_entries answers for one request
ProbeResult(entry) == <<"Struct", entry[2], entry[3]>>

configure_entries(entries) == [i \in 1..Len(entries) |-> ProbeResult(entries[i])]

\* handle.become(TYPE).  On a handle that was backfilled before, the outcome
\* is not fixed by the type space: the layout is replaced or the call raises.
become(hp, id, TYPE, again) ==
  IF hp[id].layout = Unresolved
    THEN [heap |-> [hp EXCEPT ![id].layout = TYPE, ![id].becomes = @ + 1], err |-> "none"]
  ELSE IF again = "replace"
    THEN [heap |-> [hp EXCEPT ![id].layout = TYPE, ![id].becomes = @ + 1], err |-> "none"]
    ELSE [heap |-> hp, err |-> "AttributeError"]

(***************************************************************************)
(* CTypeSpace.                                                             *)
(***************************************************************************)
\* CTypeSpace.__init__ with no arguments
NewCTypeSpace ==
  [definitions |-> EmptyDict, macros |-> EmptyDict, structs |-> EmptyDict,
   config_entries |-> <<>>, requested |-> <<>>, routed |-> <<>>,
   handled |-> {}, cdecl_type_cache |-> EmptyDict]

\* struct names the frontend made up for anonymous structs start with '$'
AnonymousNames == {"$1"}

get_type_name(d) ==
  IF d.type_name # NoName THEN [name |-> d.type_name, err |-> "none"]
  ELSE IF d.struct_name \notin AnonymousNames
    THEN [name |-> "struct " \o d.struct_name, err |-> "none"]
  ELSE [name |-> "", err |-> "ValueError"]

\* the request for placeholder id under the name tn; requested is the log
\* of every request made
Enqueue(w, id, tn) ==
  IF tn.err # "none" THEN Raise(w, tn.err)
  ELSE Return([w EXCEPT !.c.config_entries =
                          Append(@, [entry |-> StructEntry(tn.name, w.heap[id].fields),
                                     TYPE |-> id]),
                        !.c.requested = Append(@, id)],
              <<"Fwd", id>>)

\* struct is <<"Delayed", id>>
realize_struct(w, struct) == Enqueue(w, struct[2], get_type_name(w.heap[struct[2]]))

\* if tp.type_name is None: tp.type_name = name
NameStruct(w, id, name) ==
  IF w.heap[id].type_name = NoName THEN [w EXCEPT !.heap[id].type_name = name] ELSE w

\* lines 98-103 of add_typedef, r being what convert_type gave
BindTypedef(r, name, obj) ==
  IF IsDelayed(r.res)
    THEN Bind(realize_struct(NameStruct(r.w, r.res[2], name), r.res),
              LAMBDA z : IF "realtype" \notin DOMAIN Node[obj]
                           THEN Raise(z.w, "AttributeError")
                           ELSE Return([z.w EXCEPT
                                          !.c.structs = Put(@, Node[obj].realtype, z.res),
                                          !.c.definitions = Put(@, name, z.res)],
                                       None))
    ELSE Return([r.w EXCEPT !.c.definitions = Put(@, name, r.res)], None)

\* add_typedef without its assert (also the slip of leaving the assert out)
add_typedef_unchecked(w, name, obj, quals) ==
  Bind(convert_type(w, obj, quals, Fuel), LAMBDA r : BindTypedef(r, name, obj))

add_typedef(w, name, obj, quals) ==
  IF name \in DOMAIN w.c.definitions THEN Raise(w, "AssertionError")
  ELSE add_typedef_unchecked(w, name, obj, quals)

\* add_macro with the assert left out
add_macro_unchecked(w, name, value) ==
  Return([w EXCEPT !.c.macros = Put(@, name, value)], None)

add_macro(w, name, value) ==
  IF name \in DOMAIN w.c.macros THEN Raise(w, "AssertionError")
  ELSE Return([w EXCEPT !.c.macros = Put(@, name, value)], None)

\* self._handled.add(name)
MarkHandled(w, name) == [w EXCEPT !.c.handled = @ \cup {name}]

\* routed is the log of the declarations handed to add_typedef or add_macro
LogRouted(w, name) == [w EXCEPT !.c.routed = Append(@, name)]

\* lines 157-163 for the declaration name, whose entry is d
Route(w, name, d) ==
  CASE d.kind = "typedef" ->
         add_typedef(LogRouted(MarkHandled(w, name), name), d.short, d.obj, d.quals)
    [] d.kind = "macro" -> add_macro(LogRouted(MarkHandled(w, name), name), d.short, d.obj)
    [] OTHER -> Return(MarkHandled(w, name), None)

RECURSIVE handle_declarations(_, _, _)
\* the loop of configure_types over ctx._declarations
handle_declarations(w, x, names) ==
  IF names = <<>> THEN Return(w, None)
  ELSE IF Decl[Head(names)].obj \in x.included \/ Head(names) \in w.c.handled
    THEN handle_declarations(w, x, Tail(names))
    ELSE Bind(Route(w, Head(names), Decl[Head(names)]),
              LAMBDA r : handle_declarations(r.w, x, Tail(names)))

\* list(self._config_entries)
EntryList(entries) == [i \in 1..Len(entries) |-> entries[i].entry]

\* a plausible slip: one oracle call per pending request
probe_each(entries, ok) ==
  [calls |-> [i \in 1..Len(entries) |-> <<entries[i].entry>>],
   result |-> IF ok THEN configure_entries(EntryList(entries)) ELSE <<>>,
   err |-> IF ok THEN "none" ELSE "ProbeError"]

\* rffi_platform.configure_entries(list(self._config_entries), eci):
\* the calls made, and the answer or the failure of the oracle
probe(entries, ok) ==
  [calls |-> <<EntryList(entries)>>,
   result |-> IF ok THEN configure_entries(EntryList(entries)) ELSE <<>>,
   err |-> IF ok THEN "none" ELSE "ProbeError"]

\* an exception inside the izip loop ends it
BindHeap(b, K(_)) == IF b.err # "none" THEN b ELSE K(b)

RECURSIVE backfill_from(_, _, _, _, _)
backfill_from(hp, entries, result, i, again) ==
  IF i > Len(entries) \/ i > Len(result) THEN [heap |-> hp, err |-> "none"]
  ELSE BindHeap(become(hp, entries[i].TYPE, result[i], again),
                LAMBDA b : backfill_from(b.heap, entries, result, i + 1, again))

Reverse(s) == [i \in 1..Len(s) |-> s[Len(s) + 1 - i]]

\* a plausible slip: the results are paired with the requests in the wrong order
backfill_reversed(hp, entries, result, again) ==
  backfill_from(hp, entries, Reverse(result), 1, again)

\* for entry, TYPE in izip(self._config_entries, result): ... .become(TYPE)
backfill(hp, entries, result, again) ==
  backfill_from(hp, entries, result, 1, again)

\* the outcome of a pass, with what was pending when the oracle was reached
\* and what the oracle was asked and answered
Pass(w, err, pending, p) ==
  [w |-> w, res |-> None, err |-> err, pending |-> pending,
   probes |-> p.calls, results |-> p.result]

NoProbe == [calls |-> <<>>, result |-> <<>>, err |-> "none"]

\* a plausible slip: the pending set is not cleared after the backfill
Cleared_keep(w, p, b) ==
  Pass([w EXCEPT !.heap = b.heap], b.err, w.c.config_entries, p)

\* lines 171-172, b being what the izip loop left
Cleared(w, p, b) ==
  IF b.err # "none"
    THEN Pass([w EXCEPT !.heap = b.heap], b.err, w.c.config_entries, p)
    ELSE Pass([w EXCEPT !.heap = b.heap, !.c.config_entries = <<>>],
              "none", w.c.config_entries, p)

\* a plausible slip: a failed probe still backfills, with a guessed layout
finish_pass_besteffort(w, p, again) ==
  IF p.err # "none"
    THEN Pass([w EXCEPT !.heap =
                 backfill(w.heap, w.c.config_entries,
                          [i \in 1..Len(w.c.config_entries) |-> <<"Struct", "guess", None>>],
                          again).heap],
              p.err, w.c.config_entries, p)
    ELSE Cleared(w, p, backfill(w.heap, w.c.config_entries, p.result, again))

\* the end of configure_types once the oracle has answered or failed
finish_pass(w, p, again) ==
  IF p.err # "none" THEN Pass(w, p.err, w.c.config_entries, p)
  ELSE Cleared(w, p, backfill(w.heap, w.c.config_entries, p.result, again))

\* lines 164-172, r being what the declaration loop left
AfterDeclarations(r, ok, again) ==
  IF r.err # "none" THEN Pass(r.w, r.err, r.w.c.config_entries, NoProbe)
  ELSE IF r.w.c.config_entries = <<>> THEN Pass(r.w, "none", <<>>, NoProbe)
  ELSE finish_pass(r.w, probe(r.w.c.config_entries, ok), again)

configure_types(w, x, ok, again) ==
  AfterDeclarations(handle_declarations(w, x, x.declarations), ok, again)

\* the outcome of gettype; parsed: whether the frontend's parse_type ran
Got(r, parsed) == [w |-> r.w, res |-> r.res, err |-> r.err, parsed |-> parsed]

\* lines 221-223 and 215-216, r being what convert_type gave
Memoize(r, cdecl) ==
  IF r.err # "none" THEN Got(r, TRUE)
  ELSE Got(Return([r.w EXCEPT !.c.cdecl_type_cache = Put(@, cdecl, Unwrap(r.res))],
                  Unwrap(r.res)),
           TRUE)

\* self.ctx.parse_type(cdecl) gave o
_real_gettype(w, o, cdecl) ==
  IF o.err # "none" THEN Got(Raise(w, o.err), TRUE)
  ELSE Memoize(convert_type(w, o.obj, 0, Fuel), cdecl)

\* a plausible slip: the cache is never consulted
gettype_nocache(w, x, cdecl) == _real_gettype(w, ctx_parse_type(x, cdecl), cdecl)

gettype(w, x, cdecl) ==
  IF cdecl \in DOMAIN w.c.cdecl_type_cache
    THEN Got(Return(w, w.c.cdecl_type_cache[cdecl]), FALSE)
    ELSE _real_gettype(w, ctx_parse_type(x, cdecl), cdecl)

\* self.structs.update(other.structs)
DictUpdate(d, e) == [k \in (DOMAIN d) \cup (DOMAIN e) |-> IF k \in DOMAIN e THEN e[k] ELSE d[k]]

\* a plausible slip: the struct cache is replaced by other's, not merged
include_replace(c, other) == [c EXCEPT !.structs = other.structs]

\* a plausible slip: an entry self already has is kept, not overwritten
include_keep(c, other) == [c EXCEPT !.structs = DictUpdate(other.structs, @)]

\* the part of include that works on the type space itself
include(c, other) == [c EXCEPT !.structs = DictUpdate(@, other.structs)]

(***************************************************************************)
(* rpython/rlib/buffer.py.  bufs is the sequence of buffer objects made;   *)
(* an object is referred to by its position.  Bytes are one-character      *)
(* strings, a string or list of bytes is a sequence, and Python's index i  *)
(* is position i + 1.  view is history: the arguments SubBuffer was        *)
(* called with.                                                            *)
(***************************************************************************)
\* ByteBuffer(n): n zero bytes, writable
ByteBuffer(n) ==
  [cls |-> "ByteBuffer", data |-> [i \in 1..n |-> "0"], readonly |-> FALSE,
   buffer |-> 0, offset |-> 0, size |-> 0, view |-> <<>>]

\* StringBuffer(value): readonly = 1
StringBuffer(value) ==
  [cls |-> "StringBuffer", data |-> value, readonly |-> TRUE,
   buffer |-> 0, offset |-> 0, size |-> 0, view |-> <<>>]

\* SubBuffer.getlength on the attributes, n being self.buffer.getlength()
SubLength(n, offset, size) ==
  IF 0 <= size /\ size <= n - offset THEN size
  ELSE IF n - offset >= 0 THEN n - offset
  ELSE 0

RECURSIVE getlength(_, _)
getlength(bs, id) ==
  IF bs[id].cls = "SubBuffer"
    THEN SubLength(getlength(bs, bs[id].buffer), bs[id].offset, bs[id].size)
    ELSE Len(bs[id].data)

RECURSIVE getitem(_, _, _)
\* no bounds checks: defined for the indexes inside the base buffer
getitem(bs, id, index) ==
  IF bs[id].cls = "SubBuffer"
    THEN getitem(bs, bs[id].buffer, bs[id].offset + index)
    ELSE bs[id].data[index + 1]

\* the size a view (offset, size) over a view of length n is given
ClampSize(n, offset, size) ==
  IF size > n - offset \/ size < 0
    THEN (IF n - offset < 0 THEN 0 ELSE n - offset)
    ELSE size

\* the SubBuffer object with these attributes
SubBufferObject(readonly, buffer, offset, size) ==
  [cls |-> "SubBuffer", data |-> <<>>, readonly |-> readonly,
   buffer |-> buffer, offset |-> offset, size |-> size, view |-> <<>>]

\* a plausible slip: the size is not clamped to the view it is taken over
SubBuffer_noclamp(bs, buffer, offset, size) ==
  IF bs[buffer].cls = "SubBuffer"
    THEN SubBufferObject(bs[buffer].readonly, bs[buffer].buffer,
                         offset + bs[buffer].offset, size)
    ELSE SubBufferObject(bs[buffer].readonly, buffer, offset, size)

\* SubBuffer.__init__(buffer, offset, size)
SubBuffer(bs, buffer, offset, size) ==
  IF bs[buffer].cls = "SubBuffer"
    THEN SubBufferObject(bs[buffer].readonly, bs[buffer].buffer,
                         offset + bs[buffer].offset,
                         ClampSize(getlength(bs, buffer), offset, size))
    ELSE SubBufferObject(bs[buffer].readonly, buffer, offset, size)

RECURSIVE setitem(_, _, _, _)
\* Buffer.setitem is not overridden by StringBuffer
setitem(bs, id, index, char) ==
  CASE bs[id].cls = "SubBuffer" -> setitem(bs, bs[id].buffer, bs[id].offset + index, char)
    [] bs[id].cls = "ByteBuffer" -> [bufs |-> [bs EXCEPT ![id].data[index + 1] = char],
                                     err |-> "none"]
    [] OTHER -> [bufs |-> bs, err |-> "NotImplementedError"]

\* a buffer backed by raw memory, of a subclass of RawBuffer that sets
\* readonly and inherits typed_write
RawBuffer(value, readonly) ==
  [cls |-> "RawBuffer", data |-> value, readonly |-> readonly,
   buffer |-> 0, offset |-> 0, size |-> 0, view |-> <<>>]

\* the types typed_write is specialized for here, and their sizes in bytes
TPs == {"Char", "Short"}

sizeof(TP) == IF TP = "Char" THEN 1 ELSE 2

\* the byte of value n in the notation of the model
ByteOf(n) ==
  CASE n = 0 -> "0"
    [] n = 97 -> "a"
    [] n = 98 -> "b"
    [] n = 120 -> "x"
    [] n = 121 -> "y"
    [] OTHER -> "?"

\* lltype.cast_primitive(TP, value): the value in the width of TP
cast_primitive(TP, value) == value % (256 ^ sizeof(TP))

\* the bytes a value of type TP is stored as, lowest byte first
BytesOf(TP, value) ==
  [k \in 1..sizeof(TP) |-> ByteOf((cast_primitive(TP, value) \div (256 ^ (k - 1))) % 256)]

\* llop.raw_store / llop.gc_store_indexed: the bytes of value replace the
\* ones at byte_offset; defined for a store inside the data
store(data, TP, byte_offset, value) ==
  [i \in DOMAIN data |->
     IF byte_offset < i /\ i <= byte_offset + sizeof(TP)
       THEN BytesOf(TP, value)[i - byte_offset]
       ELSE data[i]]

\* a plausible slip: the store is not refused on a read-only buffer
GCBuffer_typed_write_unchecked(bs, id, TP, byte_offset, value) ==
  [bufs |-> [bs EXCEPT ![id].data = store(@, TP, byte_offset, value)], err |-> "none"]

\* GCBuffer.typed_write
GCBuffer_typed_write(bs, id, TP, byte_offset, value) ==
  IF bs[id].readonly
    THEN [bufs |-> bs, err |-> "CannotWrite"]
    ELSE [bufs |-> [bs EXCEPT ![id].data = store(@, TP, byte_offset, value)],
          err |-> "none"]

\* RawBuffer.typed_write
RawBuffer_typed_write(bs, id, TP, byte_offset, value) ==
  IF bs[id].readonly
    THEN [bufs |-> bs, err |-> "CannotWrite"]
    ELSE [bufs |-> [bs EXCEPT ![id].data = store(@, TP, byte_offset, value)],
          err |-> "none"]

RECURSIVE typed_write(_, _, _, _, _)
\* buf.typed_write(TP, byte_offset, value), by the class of buf;
\* Buffer.typed_write for a class that is neither
typed_write(bs, id, TP, byte_offset, value) ==
  CASE bs[id].cls = "SubBuffer" ->
         typed_write(bs, bs[id].buffer, TP, byte_offset + bs[id].offset, value)
    [] bs[id].cls \in {"ByteBuffer", "StringBuffer"} ->
         GCBuffer_typed_write(bs, id, TP, byte_offset, value)
    [] bs[id].cls = "RawBuffer" ->
         RawBuffer_typed_write(bs, id, TP, byte_offset, value)
    [] OTHER -> [bufs |-> bs, err |-> "CannotWrite"]

\* the outcome of the last call on a buffer; on: the object typed_write
\* was called on
BufferCall(op, err) == [op |-> op, err |-> err, on |-> 0]

NoBufferCall == BufferCall("none", "none")

(***************************************************************************)
(* The state machine.  ret is the outcome of the last call.                *)
(***************************************************************************)
World(t) == [c |-> cts[t], heap |-> heap, self |-> t]

Outcome(op, t, arg, res, err, parsed, pending, probes, results) ==
  [op |-> op, t |-> t, arg |-> arg, res |-> res, err |-> err, parsed |-> parsed,
   pending |-> pending, probes |-> probes, results |-> results]

Init ==
  /\ cts = [t \in TS |-> NewCTypeSpace]
  /\ ctx = [t \in TS |-> [declarations |-> <<>>, included |-> {}]]
  /\ heap = <<>>
  /\ ret = Outcome("init", 0, "", None, "none", FALSE, <<>>, <<>>, <<>>)
  /\ bufs = <<>>
  /\ bres = NoBufferCall

\* the inputs of a pass: ok, whether the oracle answers, and again, what
\* become does on a handle already backfilled.  A pass that does not reach
\* the oracle, or meets no such handle, takes one value of each
InputsAfter(r) ==
  IF r.err # "none" \/ r.w.c.config_entries = <<>> THEN {<<TRUE, "raise">>}
  ELSE IF \E i \in DOMAIN r.w.c.config_entries :
            r.w.heap[r.w.c.config_entries[i].TYPE].layout # Unresolved
    THEN BOOLEAN \X {"replace", "raise"}
    ELSE BOOLEAN \X {"raise"}

PassInputs(w, x) == InputsAfter(handle_declarations(w, x, x.declarations))

\* the call on type space t returned or raised r
Commit(t, op, arg, r, parsed) ==
  /\ cts' = [cts EXCEPT ![t] = r.w.c]
  /\ heap' = r.w.heap
  /\ ret' = Outcome(op, t, arg, r.res, r.err, parsed,
                    IF op = "parse_source" THEN r.pending ELSE <<>>,
                    IF op = "parse_source" THEN r.probes ELSE <<>>,
                    IF op = "parse_source" THEN r.results ELSE <<>>)
  /\ UNCHANGED <<bufs, bres>>

\* self.ctx.parse(source) gave f; then configure_types
Parsed(t, f) ==
  IF f.err # "none"
    THEN /\ ret' = Outcome("parse_source", t, "", None, f.err, FALSE, <<>>, <<>>, <<>>)
         /\ UNCHANGED <<cts, ctx, heap, bufs, bres>>
    ELSE /\ ctx' = [ctx EXCEPT ![t] = f.x]
         /\ \E in \in PassInputs(World(t), f.x) :
              Commit(t, "parse_source", "", configure_types(World(t), f.x, in[1], in[2]), FALSE)

\* parse_source(source) on type space t
ParseSource(t, s) == Parsed(t, ctx_parse(ctx[t], s))

\* TS 1 includes TS 2
Include ==
  /\ ctx' = [ctx EXCEPT ![1] = ctx_include(@, ctx[2])]
  /\ cts' = [cts EXCEPT ![1] = include(@, cts[2])]
  /\ ret' = Outcome("include", 0, "", None, "none", FALSE, <<>>, <<>>, <<>>)
  /\ UNCHANGED <<heap, bufs, bres>>

GotType(t, d, r) == Commit(t, "gettype", d, r, r.parsed) /\ UNCHANGED ctx

GetType(t, d) == GotType(t, d, gettype(World(t), ctx[t], d))

Next ==
  \/ \E s \in MainSources : ParseSource(Source[s].unit, s)
  \/ Include
  \/ \E t \in TS, d \in MainCDecls : GetType(t, d)

Spec == Init /\ [][Next]_vars

\* one unit that parses its texts, and gettype on every type expression,
\* declared or not
LookupSources == {"h2_structs", "h2_typedefs"}

NextLookup ==
  \/ \E s \in LookupSources : ParseSource(Source[s].unit, s)
  \/ \E t \in TS, d \in DOMAIN CDecl : GetType(t, d)

SpecLookup == Init /\ [][NextLookup]_vars

\* one unit whose texts include a typedef of an unsupported construct (a
\* variadic function pointer), parsed in any order and any number of times
RetrySources == {"h2_structs", "h2_typedefs", "h2_more"}

NextRetry ==
  \/ \E s \in RetrySources : ParseSource(Source[s].unit, s)
  \/ \E d \in MainCDecls : GetType(2, d)

SpecRetry == Init /\ [][NextRetry]_vars

(***************************************************************************)
(* Buffers: one base buffer of fixed length, views made over it and over   *)
(* its views, and bytes written through any of them.                       *)
(***************************************************************************)
\* the strings a StringBuffer is made of
Values == {<<>>, <<"a">>, <<"a", "b">>}

\* the offsets and sizes of a view: past the end of the shorter base buffers,
\* and past the end of all of them when offsets add up
Offsets == {0, 1, 2}

\* -1: up to the end
Sizes == {-1, 0, 1, 2}

InitBuffers ==
  /\ cts = [t \in TS |-> NewCTypeSpace]
  /\ ctx = [t \in TS |-> [declarations |-> <<>>, included |-> {}]]
  /\ heap = <<>>
  /\ ret = Outcome("init", 0, "", None, "none", FALSE, <<>>, <<>>, <<>>)
  /\ bufs \in {<<StringBuffer(v)>> : v \in Values} \cup {<<ByteBuffer(n)>> : n \in 0..MaxLen}
  /\ bres = NoBufferCall

\* SubBuffer(buffer, offset, size) on an existing buffer object
NewSubBuffer(buffer, offset, size) ==
  /\ Len(bufs) < MaxBufs
  /\ bufs' = Append(bufs, [SubBuffer(bufs, buffer, offset, size)
                             EXCEPT !.view = <<buffer, offset, size>>])
  /\ bres' = BufferCall("SubBuffer", "none")
  /\ UNCHANGED <<cts, ctx, heap, ret>>

\* the call of setitem returned or raised r
Stored(r) ==
  /\ bufs' = r.bufs
  /\ bres' = BufferCall("setitem", r.err)
  /\ UNCHANGED <<cts, ctx, heap, ret>>

\* buf.setitem(index, char), the index inside the buffer
SetItem(id, index, char) ==
  /\ index < getlength(bufs, id)
  /\ Stored(setitem(bufs, id, index, char))

NextBuffers ==
  \/ \E b \in DOMAIN bufs, o \in Offsets, z \in Sizes : NewSubBuffer(b, o, z)
  \/ \E id \in DOMAIN bufs, i \in 0..(MaxLen - 1) : SetItem(id, i, "x")

SpecBuffers == InitBuffers /\ [][NextBuffers]_vars

(***************************************************************************)
(* Typed writes: a base buffer of any class, read-only or writable, views  *)
(* over it and over its views, and typed_write through any of them.  A     *)
(* store into a writable buffer has no bounds checks: the caller keeps it  *)
(* inside the buffer it writes through.  A read-only buffer is written at  *)
(* any offset.                                                             *)
(***************************************************************************)
\* the value written: 'x' 'y' as a Short, which is 'x' as a Char
WriteValues == {31096}

\* the byte offsets written at: inside and past the end of the short buffers
WriteOffsets == {0, 1}

\* the views made, as <<offset, size>>: whole, tail, one byte, and past the
\* end of a view of one byte
WriteViews == {<<0, -1>>, <<1, -1>>, <<0, 1>>, <<1, 2>>}

InitWrites ==
  /\ cts = [t \in TS |-> NewCTypeSpace]
  /\ ctx = [t \in TS |-> [declarations |-> <<>>, included |-> {}]]
  /\ heap = <<>>
  /\ ret = Outcome("init", 0, "", None, "none", FALSE, <<>>, <<>>, <<>>)
  /\ bufs \in {<<StringBuffer(v)>> : v \in Values}
             \cup {<<ByteBuffer(n)>> : n \in 0..MaxLen}
             \cup {<<RawBuffer(v, r)>> : v \in Values, r \in BOOLEAN}
  /\ bres = NoBufferCall

\* the call of typed_write on id returned or raised r
Written(id, r) ==
  /\ bufs' = r.bufs
  /\ bres' = [BufferCall("typed_write", r.err) EXCEPT !.on = id]
  /\ UNCHANGED <<cts, ctx, heap, ret>>

\* buf.typed_write(TP, byte_offset, value)
TypedWrite(id, TP, byte_offset, value) ==
  /\ bufs[id].readonly \/ byte_offset + sizeof(TP) <= getlength(bufs, id)
  /\ Written(id, typed_write(bufs, id, TP, byte_offset, value))

NextWrites ==
  \/ \E b \in DOMAIN bufs, v \in WriteViews : NewSubBuffer(b, v[1], v[2])
  \/ \E id \in DOMAIN bufs, TP \in TPs, o \in WriteOffsets, v \in WriteValues :
       TypedWrite(id, TP, o, v)

SpecWrites == InitWrites /\ [][NextWrites]_vars

(***************************************************************************)
(* The methods of one type space called directly, on any node.             *)
(***************************************************************************)
ApiNames == {"T", "U"}
ApiTypedefObjs == {"tA", "tS", "tvf", "tcc"}
ApiMacroNames == {"M", "N"}
ApiMacroValues == {"1", "2"}

ConvertType(obj) ==
  /\ Commit(1, "convert_type", obj, convert_type(World(1), obj, 0, Fuel), FALSE)
  /\ UNCHANGED ctx

AddTypedef(name, obj) ==
  /\ Commit(1, "add_typedef", name, add_typedef(World(1), name, obj, 0), FALSE)
  /\ UNCHANGED ctx

AddMacro(name, value) ==
  /\ Commit(1, "add_macro", name, add_macro(World(1), name, value), FALSE)
  /\ UNCHANGED ctx

\* convert_type alone, on every node
NextLower == \E obj \in NodeIds : ConvertType(obj)

SpecLower == Init /\ [][NextLower]_vars

\* add_typedef and add_macro alone
NextDefs ==
  \/ \E name \in ApiNames, obj \in ApiTypedefObjs : AddTypedef(name, obj)
  \/ \E name \in ApiMacroNames, value \in ApiMacroValues : AddMacro(name, value)

SpecDefs == Init /\ [][NextDefs]_vars

(***************************************************************************)
(* Properties.                                                             *)
(***************************************************************************)
HandleOf(v) == v[2]

\* the placeholders type space t made for struct node n
MadeFor(t, n) == {id \in DOMAIN heap : heap[id].by = t /\ heap[id].struct_name = Node[n].name}

\* the struct nodes that lie on a reference cycle: A <-> B, and S -> S
CycleStructs == {"A", "B", "S"}

\* the nodes whose lowering enters a cycle
CycleEntries == CycleStructs \cup {"pA", "pB", "pS", "tA", "tB", "tA1", "tAA", "tS", "tpB", "fn"}

\* field i of struct node n points to a struct: the node pointed to, else "void"
FieldTarget(n, i) ==
  LET f == Node[Node[n].fldtypes[i]]
  IN IF f.kind = "PointerType" /\ Node[f.totype].kind = "StructType" THEN f.totype ELSE "void"

\* C1: cycle safety.  Lowering a node of a cycle of structs ends without
\* running out of depth; every struct of the cycle is then in the struct cache,
\* with exactly one placeholder ever made for it and its fields filled in; and
\* every field that points to a struct holds a pointer to the handle of the
\* entry the struct cache has for that struct.
C1_CycleSafety ==
  /\ (ret.op = "convert_type" /\ ret.arg \in CycleEntries) => ret.err = "none"
  /\ \A n \in CycleStructs :
       /\ Cardinality(MadeFor(1, n)) = (IF n \in DOMAIN cts[1].structs THEN 1 ELSE 0)
       /\ n \in DOMAIN cts[1].structs =>
            LET d == heap[HandleOf(cts[1].structs[n])]
            IN /\ d.fields # None
               /\ \A i \in DOMAIN Node[n].fldtypes :
                    FieldTarget(n, i) # "void" =>
                      /\ FieldTarget(n, i) \in DOMAIN cts[1].structs
                      /\ d.fields[2][i] =
                           <<Node[n].fldnames[i],
                             <<"Ptr", <<"Fwd", HandleOf(cts[1].structs[FieldTarget(n, i)])>>>>>>

\* both cycles have been lowered, the last call entering A <-> B through B
C1_Witness ==
  /\ ret.op = "convert_type" /\ ret.arg = "pB" /\ ret.err = "none"
  /\ {"A", "B", "S"} \subseteq DOMAIN cts[1].structs
  /\ ret.res = <<"Ptr", <<"Fwd", HandleOf(cts[1].structs["B"])>>>>

RECURSIVE NestsVariadic(_, _)
\* node obj is, or contains within depth k, a function pointer with an ellipsis
NestsVariadic(obj, k) ==
  LET n == Node[obj]
  IN IF k = 0 THEN FALSE
     ELSE CASE n.kind = "FunctionPtrType" ->
                 \/ n.ellipsis
                 \/ \E i \in DOMAIN n.args : NestsVariadic(n.args[i], k - 1)
                 \/ NestsVariadic(n.result, k - 1)
            [] n.kind = "PointerType" -> NestsVariadic(n.totype, k - 1)
            [] n.kind = "ArrayType" -> NestsVariadic(n.item, k - 1)
            [] n.kind = "DefinedType" -> NestsVariadic(n.realtype, k - 1)
            [] n.kind = "StructType" ->
                 \E i \in DOMAIN n.fldtypes : NestsVariadic(n.fldtypes[i], k - 1)
            [] OTHER -> FALSE

\* C10: variadic rejection.  convert_type on a function pointer with an
\* ellipsis, or on a node that nests one (struct field, pointee, array
\* element, typedef target, parameter), fails and returns no descriptor.
C10_VariadicRejection ==
  (ret.op = "convert_type" /\ NestsVariadic(ret.arg, Fuel))
     => (ret.err = "NotImplementedError" /\ ret.res = None)

\* a failed lowering of struct V left its half-built placeholder behind
C10_Witness ==
  /\ ret.op = "convert_type" /\ ret.arg = "V" /\ ret.err = "NotImplementedError"
  /\ "V" \in DOMAIN cts[1].structs

\* C9: redefinition rejection.  add_typedef with a name the typedef table has
\* fails and leaves the typedef table as it was; add_macro with a name the
\* macro table has fails and leaves the macro table as it was.
C9_RedefinitionRejected ==
  [][ /\ (ret'.op = "add_typedef" /\ ret'.arg \in DOMAIN cts[1].definitions)
           => (ret'.err = "AssertionError" /\ cts'[1].definitions = cts[1].definitions)
      /\ (ret'.op = "add_macro" /\ ret'.arg \in DOMAIN cts[1].macros)
           => (ret'.err = "AssertionError" /\ cts'[1].macros = cts[1].macros) ]_vars

\* a typedef name bound to struct A was registered again and refused
C9_Witness ==
  /\ ret.op = "add_typedef" /\ ret.err = "AssertionError"
  /\ ret.arg \in DOMAIN cts[1].definitions
  /\ cts[1].definitions[ret.arg][1] = "Fwd"
  /\ DOMAIN cts[1].macros # {}

\* C7: idempotent caching.  An entry of the declaration cache never changes
\* or disappears, and a gettype call for a cached string returns the cached
\* descriptor without running the frontend's parse_type.
C7_IdempotentCaching ==
  [][ \A t \in TS : \A d \in DOMAIN cts[t].cdecl_type_cache :
        /\ d \in DOMAIN cts'[t].cdecl_type_cache
        /\ cts'[t].cdecl_type_cache[d] = cts[t].cdecl_type_cache[d]
        /\ (ret'.op = "gettype" /\ ret'.t = t /\ ret'.arg = d)
             => (/\ ret'.err = "none"
                 /\ ret'.res = cts[t].cdecl_type_cache[d]
                 /\ ~ret'.parsed) ]_vars

\* a cache hit in TS 1 after an include changed what the struct cache holds
C7_Witness ==
  /\ ret.op = "gettype" /\ ret.t = 1 /\ ret.arg = "struct_A_ptr"
  /\ ~ret.parsed /\ ret.err = "none"
  /\ ret.res # <<"Ptr", <<"Fwd", HandleOf(cts[1].structs["A"])>>>>

SameOutcome(a, b) == a.res = b.res /\ a.err = b.err

\* C8: the declaration cache is an accelerator only.  In every state, for
\* every string, gettype gives the same descriptor or failure with the cache
\* as it is and with the cache cleared first.
C8_CacheIsAcceleratorOnly ==
  \A t \in TS : \A d \in DOMAIN CDecl :
    SameOutcome(gettype(World(t), ctx[t], d),
                gettype([World(t) EXCEPT !.c.cdecl_type_cache = EmptyDict], ctx[t], d))

\* C4: one oracle call per configuration pass.  A pass calls the oracle at
\* most once, with the requests of the whole pending set in insertion order,
\* and not at all when the pending set is empty.
C4_OneBatchedProbe ==
  ret.op = "parse_source" =>
    /\ Len(ret.probes) <= 1
    /\ ret.pending = <<>> => ret.probes = <<>>
    /\ ret.probes # <<>> => ret.probes[1] = EntryList(ret.pending)
    /\ (ret.pending # <<>> /\ ret.err \in {"none", "ProbeError"}) => ret.probes # <<>>

\* a pass that probed two requests in one call
C4_Witness ==
  /\ ret.op = "parse_source" /\ Len(ret.probes) = 1 /\ Len(ret.probes[1]) = 2

\* C5: batch probe correspondence.  After a pass that returned, the handle
\* paired with the i-th pending request holds the layout the oracle returned
\* for the i-th request.
C5_BatchCorrespondence ==
  (ret.op = "parse_source" /\ ret.err = "none" /\ ret.pending # <<>>) =>
    /\ Len(ret.results) = Len(ret.pending)
    /\ \A i \in DOMAIN ret.pending :
         /\ heap[ret.pending[i].TYPE].layout = ret.results[i]
         /\ ret.results[i] = ProbeResult(ret.pending[i].entry)

\* A and B, each pointing to the other, were probed in one pass
C5_Witness ==
  /\ ret.op = "parse_source" /\ ret.err = "none" /\ Len(ret.pending) = 2
  /\ heap[ret.pending[1].TYPE].struct_name = "A"
  /\ heap[ret.pending[2].TYPE].struct_name = "B"
  /\ heap[ret.pending[1].TYPE].layout # heap[ret.pending[2].TYPE].layout

\* C6: a failed probe fails the pass as a whole.  The failure is what the
\* caller of parse_source gets, and the step backfills no handle.
C6_ProbeFailureIsAtomic ==
  [][ (ret'.op = "parse_source" /\ ret'.probes # <<>> /\ ret'.results = <<>>) =>
        /\ ret'.err = "ProbeError"
        /\ \A id \in DOMAIN heap' :
             /\ heap'[id].layout = (IF id \in DOMAIN heap THEN heap[id].layout ELSE Unresolved)
             /\ heap'[id].becomes = (IF id \in DOMAIN heap THEN heap[id].becomes ELSE 0)
        /\ \A i \in DOMAIN ret'.pending : ret'.pending[i] \in Range(cts'[1].config_entries)
                                           \/ ret'.pending[i] \in Range(cts'[2].config_entries) ]_vars

\* the oracle failed on a batch of two requests, both still unresolved
C6_Witness ==
  /\ ret.op = "parse_source" /\ ret.err = "ProbeError" /\ Len(ret.pending) = 2
  /\ \A i \in DOMAIN ret.pending : heap[ret.pending[i].TYPE].layout = Unresolved

\* every text has been parsed and every declaration handled; nothing pending
Done ==
  \A t \in TS :
    /\ \A s \in MainSources : Source[s].unit = t =>
         Range(Source[s].decls) \subseteq Range(ctx[t].declarations)
    /\ \A n \in Range(ctx[t].declarations) :
         n \in cts[t].handled \/ Decl[n].obj \in ctx[t].included
    /\ cts[t].config_entries = <<>>

Count(seq, x) == Cardinality({i \in DOMAIN seq : seq[i] = x})

\* the requests ever made for placeholder id, by any type space
Requests(id) == Count(cts[1].requested, id) + Count(cts[2].requested, id)

\* C2: every placeholder with concrete fields gets exactly one probe request.
\* Once every text is parsed no further request can come, so by then each
\* populated placeholder has had exactly one.
C2_ExactlyOneRequest ==
  Done => \A id \in DOMAIN heap : heap[id].fields # None => Requests(id) = 1

PointeeOf(obj) == convert_type(World(1), Node[obj].totype, 0, Fuel).res

\* the descriptor is a pointer to an array marked read-only
IsConstArrayPtr(tp) == tp[1] = "Ptr" /\ tp[2][1] = "Array" /\ Len(tp[2]) = 4
                       /\ tp[2][4] = "render_as_const"

\* C11: pointer lowering follows the pointee.  A void pointee gives the
\* generic untyped pointer; a placeholder pointee a pointer to its handle; a
\* container pointee a pointer to that container; any other pointee a pointer
\* to an array of it without length, marked read-only exactly when the pointer
\* node has the const qualifier: "const char *" and "char *" differ in that.
C11_PointerFollowsPointee ==
  (ret.op = "convert_type" /\ Node[ret.arg].kind = "PointerType" /\ ret.err = "none") =>
    LET TO == PointeeOf(ret.arg)
        const == (Node[ret.arg].quals \div Q_CONST) % 2 = 1
    IN /\ TO = Void => ret.res = VOIDP
       /\ IsDelayed(TO) => ret.res = <<"Ptr", <<"Fwd", HandleOf(TO)>>>>
       /\ (TO # Void /\ ~IsDelayed(TO) /\ IsContainer(TO)) => ret.res = <<"Ptr", TO>>
       /\ (TO # Void /\ ~IsDelayed(TO) /\ ~IsContainer(TO)) =>
            /\ ret.res[1] = "Ptr" /\ ret.res[2][1] = "Array"
            /\ ret.res[2][2] = TO /\ ret.res[2][3] = "nolength"
            /\ IsConstArrayPtr(ret.res) <=> const
       /\ ret.arg = "cpc" => ret.res # convert_type(World(1), "pc", 0, Fuel).res

\* "const char *" was lowered to a pointer to a read-only array of char
C11_Witness ==
  /\ ret.op = "convert_type" /\ ret.arg = "cpc" /\ ret.err = "none"
  /\ ret.res = <<"Ptr", <<"Array", <<"Prim", "CHAR">>, "nolength", "render_as_const">>>>

\* no declaration was handed to add_typedef or add_macro twice by one type space
RoutedAtMostOnce ==
  \A t \in TS : \A n \in Range(cts[t].routed) : Count(cts[t].routed, n) = 1

\* C12: configuration is idempotent.  No declaration is routed to add_typedef
\* or add_macro twice, and a parse_source whose pass finds no declaration to
\* handle changes no typedef, macro or struct table and makes no oracle call.
C12_ConfigurationIdempotent ==
  [][ /\ RoutedAtMostOnce'
      /\ (/\ ret'.op = "parse_source" /\ ret'.err # "ParseError"
          /\ \A t \in TS : cts'[t].handled = cts[t].handled)
           => /\ ret'.probes = <<>>
              /\ \A t \in TS : /\ cts'[t].definitions = cts[t].definitions
                               /\ cts'[t].macros = cts[t].macros
                               /\ cts'[t].structs = cts[t].structs ]_vars

\* C13: monotonic growth.  No step removes a key from the typedef table, the
\* macro table or the struct cache of a type space.
C13_MonotonicGrowth ==
  [][ \A t \in TS : /\ DOMAIN cts[t].definitions \subseteq DOMAIN cts'[t].definitions
                    /\ DOMAIN cts[t].macros \subseteq DOMAIN cts'[t].macros
                    /\ DOMAIN cts[t].structs \subseteq DOMAIN cts'[t].structs ]_vars

\* TS 1 included TS 2 while holding typedefs, macros and structs TS 2 does not have
C13_Witness ==
  /\ ret.op = "include"
  /\ DOMAIN cts[1].definitions # {} /\ DOMAIN cts[1].macros # {}
  /\ DOMAIN cts[1].structs \ DOMAIN cts[2].structs # {}

\* C14: include is idempotent on the struct cache.  Right after TS 1 included
\* TS 2, every struct node of TS 2 maps in TS 1 to the handle it maps to in
\* TS 2, and including TS 2 once more leaves the struct cache of TS 1 as it is.
C14_IncludeIdempotent ==
  ret.op = "include" =>
    /\ \A n \in DOMAIN cts[2].structs :
         n \in DOMAIN cts[1].structs /\ cts[1].structs[n] = cts[2].structs[n]
    /\ include(cts[1], cts[2]).structs = cts[1].structs

\* TS 1 included TS 2 after it had made a placeholder of its own for a struct
\* TS 2 has in its cache
C14_Witness ==
  /\ ret.op = "include"
  /\ "A" \in DOMAIN cts[2].structs
  /\ MadeFor(1, "A") # {}

\* C15: register before populate.  Whenever the lowering of a struct's
\* fields began, its placeholder was already the struct's entry in the struct
\* cache; and a type space never makes a second placeholder for a struct node.
C15_RegisterBeforePopulate ==
  /\ \A id \in DOMAIN heap : heap[id].populating # "unregistered"
  /\ \A n \in StructNodes : Cardinality(MadeFor(1, n)) <= 1

\* the self-referential struct S was lowered: its field found the placeholder
C15_Witness ==
  \E id \in DOMAIN heap :
    /\ heap[id].struct_name = "S" /\ heap[id].populating = "registered"
    /\ heap[id].fields = <<"List", <<<<"next", <<"Ptr", <<"Fwd", id>>>>>>>>>>
    /\ MadeFor(1, "S") = {id}

\* C16: stable handle identity.  Once a struct node has an entry in the
\* struct cache of a type space, the handle that entry leads to (the
\* placeholder's, or the handle itself after a typedef bound it) is the same
\* after every step.
C16_StableHandleIdentity ==
  [][ \A t \in TS : \A n \in DOMAIN cts[t].structs :
        /\ n \in DOMAIN cts'[t].structs
        /\ HandleOf(cts'[t].structs[n]) = HandleOf(cts[t].structs[n]) ]_vars

\* C17: nothing stays pending after a pass that returned.  After a
\* parse_source whose pass returned without error, the pending set of that type
\* space is empty and every request that was pending when the oracle was
\* called has a backfilled handle.
C17_NothingPendingAfterPass ==
  (ret.op = "parse_source" /\ ret.err = "none") =>
    /\ cts[ret.t].config_entries = <<>>
    /\ \A i \in DOMAIN ret.pending :
         /\ heap[ret.pending[i].TYPE].layout # Unresolved
         /\ heap[ret.pending[i].TYPE].becomes >= 1

\* a pass probed its pending requests, backfilled them and returned
C17_Witness ==
  /\ ret.op = "parse_source" /\ ret.err = "none" /\ ret.pending # <<>>
  /\ cts[ret.t].config_entries = <<>>
  /\ cts[ret.t].requested # <<>>

\* the struct a type expression names, for the expressions that name one
AggregateNamed == [struct_A_ptr |-> "A", struct_O_ptr |-> "O"]

\* no declaration visible to type space t declares the struct that d names
NeverRegistered(t, d) ==
  /\ d \in DOMAIN AggregateNamed
  /\ \A n \in Range(ctx[t].declarations) : Decl[n].obj # AggregateNamed[d]

\* C18: lookup failure.  gettype on a type expression that names a struct no
\* declaration of the type space registered fails, returns no descriptor and
\* leaves the declaration cache without an entry for the string.
C18_LookupFailure ==
  (ret.op = "gettype" /\ NeverRegistered(ret.t, ret.arg)) =>
    /\ ret.err # "none"
    /\ ret.res = None
    /\ ret.arg \notin DOMAIN cts[ret.t].cdecl_type_cache

\* C19: after a pass that returned, every declaration is bound.  After a
\* parse_source whose pass returned without error, each typedef and each macro
\* in the frontend table that no included unit claims has a binding in the
\* typedef table, respectively the macro table.
C19_EveryDeclarationBound ==
  (ret.op = "parse_source" /\ ret.err = "none") =>
    \A n \in Range(ctx[ret.t].declarations) :
      Decl[n].obj \notin ctx[ret.t].included =>
        /\ Decl[n].kind = "typedef" => Decl[n].short \in DOMAIN cts[ret.t].definitions
        /\ Decl[n].kind = "macro" => Decl[n].short \in DOMAIN cts[ret.t].macros

Max(a, b) == IF a >= b THEN a ELSE b
Min(a, b) == IF a <= b THEN a ELSE b

RECURSIVE BaseOf(_)
\* the base buffer a chain of views was taken over
BaseOf(id) == IF bufs[id].view = <<>> THEN id ELSE BaseOf(bufs[id].view[1])

RECURSIVE ViewOffset(_)
\* the sum of the offsets of a chain of views
ViewOffset(id) ==
  IF bufs[id].view = <<>> THEN 0 ELSE bufs[id].view[2] + ViewOffset(bufs[id].view[1])

RECURSIVE ViewLength(_)
\* the length of a view (offset, size) taken over what it was taken over:
\* size bytes, or all when size is negative, but no more than are left
\* after offset
ViewLength(id) ==
  IF bufs[id].view = <<>> THEN Len(bufs[id].data)
  ELSE Max(0, IF bufs[id].view[3] < 0
                THEN ViewLength(bufs[id].view[1]) - bufs[id].view[2]
                ELSE Min(bufs[id].view[3], ViewLength(bufs[id].view[1]) - bufs[id].view[2]))

\* C20: SubBuffer never nests and flattening preserves the view.  For every
\* SubBuffer v made over a base buffer b or over a view of b: v.buffer is b
\* itself; v.getlength() is the length of the view taken over the view, never
\* negative and never past the end of b; and v.getitem(i) is b.getitem of i
\* plus the sum of the offsets, for every i below that length.
C20_SubBufferFlattening ==
  \A id \in DOMAIN bufs :
    bufs[id].cls = "SubBuffer" =>
      /\ bufs[id].buffer = BaseOf(id)
      /\ bufs[bufs[id].buffer].cls # "SubBuffer"
      /\ getlength(bufs, id) = ViewLength(id)
      /\ getlength(bufs, id) >= 0
      /\ getlength(bufs, id) <= Len(bufs[BaseOf(id)].data)
      /\ \A i \in 0..(getlength(bufs, id) - 1) :
           /\ ViewOffset(id) + i < Len(bufs[BaseOf(id)].data)
           /\ getitem(bufs, id, i) = getitem(bufs, BaseOf(id), ViewOffset(id) + i)

\* a view up to the end over a one-byte view of a two-byte string: one byte
C20_Witness ==
  /\ Len(bufs) = 3
  /\ bufs[1].data = <<"a", "b">>
  /\ bufs[2].view = <<1, 1, 1>>
  /\ bufs[3].view = <<2, 0, -1>>
  /\ getlength(bufs, 3) = 1
  /\ getitem(bufs, 3, 0) = "b"

(***************************************************************************)
(* C21  Read-only buffers reject typed writes: on every buffer object      *)
(* whose readonly flag is set, a view at any depth included, typed_write   *)
(* of any type at any offset raises CannotWrite and leaves every buffer's  *)
(* data as it was; the call just made on such an object did so; and the    *)
(* readonly flag of a SubBuffer equals that of the buffer it was built     *)
(* from, and that of the buffer it ends up reading.                        *)
(***************************************************************************)
C21_ReadOnlyRejectsTypedWrite ==
  /\ \A id \in DOMAIN bufs :
       /\ bufs[id].cls = "SubBuffer" =>
            /\ bufs[id].readonly = bufs[bufs[id].view[1]].readonly
            /\ bufs[id].readonly = bufs[BaseOf(id)].readonly
            /\ bufs[id].readonly = bufs[bufs[id].buffer].readonly
       /\ bufs[id].readonly =>
            \A TP \in TPs, o \in Offsets, v \in WriteValues :
              typed_write(bufs, id, TP, o, v) = [bufs |-> bufs, err |-> "CannotWrite"]
  /\ (bres.op = "typed_write" /\ bufs[bres.on].readonly) => bres.err = "CannotWrite"
  /\ bres.op = "typed_write" =>
       (bres.err = "CannotWrite" <=> bufs[BaseOf(bres.on)].readonly)

\* typed_write was refused on a view over a view over a read-only string,
\* at an offset where the string has a byte
C21_Witness ==
  /\ Len(bufs) = 3
  /\ bufs[1].cls = "StringBuffer"
  /\ bufs[1].data = <<"a", "b">>
  /\ bufs[2].view = <<1, 1, -1>>
  /\ bufs[3].view = <<2, 0, 1>>
  /\ bres = [BufferCall("typed_write", "CannotWrite") EXCEPT !.on = 3]

====
